---- MODULE Spec2Model ----
(***************************************************************************)
(* A model of coursera/api.py: the quiz/exam to markup converter, the      *)
(* markup to HTML converter and the link extraction of CourseraOnDemand.   *)
(*                                                                         *)
(* Python strings are sequences of one-character strings, so that len(),   *)
(* slicing, strip(), lower(), concatenation and the lexicographic order    *)
(* of str are computed as Python computes them.                            *)
(***************************************************************************)
EXTENDS Integers, Sequences, FiniteSets, TLC

VARIABLES
    pc,                 \* position of the operation in progress
    in_assets,          \* extract_links_from_lecture: the assets argument
    resolution,         \* extract_links_from_lecture: the resolution argument
    in_subtitle_language, \* extract_links_from_lecture: the subtitle_language argument
    subtitle_language,  \* local `subtitle_language` of the video resolver (re-assigned)
    env,                \* what the Coursera endpoints answer (read-only)
    assets,             \* local `assets` of extract_links_from_lecture
    sources,            \* local `sources` of the video resolver
    video_content,      \* local `video_content` of the video resolver
    track,              \* index into subtitle_nodes of the loop at line 632
    links,              \* local `links` of extract_links_from_lecture; `supplement_links` of a text
    asset_links,        \* the bucket of the asset pass (lecture assets, asset tags of a text)
    ai,                 \* index of the loop over asset_ids at line 500
    calls,              \* the lookups issued so far, in order
    diag,               \* the diagnostics (logging.warning) emitted so far
    result,             \* how the operation ended and what it returned
    quiz,               \* QuizExamToMarkupConverter: the quiz_or_exam_json argument
    qi,                 \* number of questions converted so far
    qresult,            \* local `result` of QuizExamToMarkupConverter.__call__
    text,               \* the text in hand (MarkupToHTMLConverter, _extract_links_from_text)
    soup,               \* the parsed document being rewritten
    run,                \* how many conversions of the document have completed
    outs,               \* the documents returned so far, one per conversion
    srcs,               \* the source buckets handed to extend_supplement_links
    merged,             \* the indices of srcs merged so far
    order,              \* the indices of srcs in the order they were merged
    dest                \* the destination bucket they are merged into

lvars == <<in_assets, in_subtitle_language, resolution, subtitle_language, env, assets, sources,
           video_content, track, links, asset_links, ai, calls, diag>>
qvars == <<quiz, qi, qresult>>
mvars == <<text, soup, run, outs>>
avars == <<srcs, merged, order, dest>>
vars == <<pc, result, lvars, qvars, mvars, avars>>

----------------------------------------------------------------------------
(* Python str *)

\* The characters in use, in code point order (str comparison is by code point).
CharOrder ==
    <<" ", "#", ",", ".", "/", "0", "1", "2", "3", "4", "5", "6", "7", "8", "9",
      ":", ";", "=", "?", "@", "A", "D", "E", "F", "I", "J", "P", "Q", "T", "W", "Y", "_",
      "a", "b", "c", "d", "e", "f", "g", "h", "i", "j", "k", "l", "m", "n", "o", "p",
      "q", "r", "s", "t", "u", "v", "w", "x", "y", "z">>

Ord(c) == CHOOSE i \in 1..Len(CharOrder) : CharOrder[i] = c

\* a < b for two str
RECURSIVE StrLess(_, _)
StrLess(a, b) ==
    IF b = <<>> THEN FALSE
    ELSE IF a = <<>> THEN TRUE
    ELSE IF Head(a) = Head(b) THEN StrLess(Tail(a), Tail(b))
    ELSE Ord(Head(a)) < Ord(Head(b))

\* s.strip()
RECURSIVE LStrip(_)
LStrip(s) == IF s # <<>> /\ Head(s) = " " THEN LStrip(Tail(s)) ELSE s

RECURSIVE RStrip(_)
RStrip(s) ==
    IF s # <<>> /\ s[Len(s)] = " " THEN RStrip(SubSeq(s, 1, Len(s) - 1)) ELSE s

Strip(s) == RStrip(LStrip(s))

\* s.strip('.')
RECURSIVE LStripDot(_)
LStripDot(s) == IF s # <<>> /\ Head(s) = "." THEN LStripDot(Tail(s)) ELSE s

RECURSIVE RStripDot(_)
RStripDot(s) ==
    IF s # <<>> /\ s[Len(s)] = "." THEN RStripDot(SubSeq(s, 1, Len(s) - 1)) ELSE s

StripDot(s) == RStripDot(LStripDot(s))

LowerChar(c) ==
    CASE c = "A" -> "a" [] c = "D" -> "d" [] c = "E" -> "e" [] c = "F" -> "f"
      [] c = "I" -> "i" [] c = "J" -> "j" [] c = "P" -> "p" [] c = "Q" -> "q" [] c = "T" -> "t"
      [] c = "W" -> "w" [] c = "Y" -> "y" [] OTHER -> c

\* s.lower()
Lower(s) == [i \in 1..Len(s) |-> LowerChar(s[i])]

\* the largest index of character c in s, 0 when there is none (s.rfind(c) + 1)
RFind(s, c) ==
    IF \E i \in 1..Len(s) : s[i] = c
    THEN CHOOSE i \in 1..Len(s) : s[i] = c /\ \A j \in (i+1)..Len(s) : s[j] # c
    ELSE 0

\* the smallest index of a character of set cs in s, Len(s) + 1 when there is none
FindAny(s, cs) ==
    IF \E i \in 1..Len(s) : s[i] \in cs
    THEN CHOOSE i \in 1..Len(s) : s[i] \in cs /\ \A j \in 1..(i-1) : s[j] \notin cs
    ELSE Len(s) + 1

\* os.path.splitext(p): the extension starts at the last dot of the last path
\* segment, unless that segment has only leading dots before it.
SplitExt(p) ==
    LET sep == RFind(p, "/")
        dot == RFind(p, ".")
        lead == \A j \in (sep+1)..dot : p[j] = "."
    IN  IF dot > sep /\ ~lead
        THEN <<SubSeq(p, 1, dot - 1), SubSeq(p, dot, Len(p))>>
        ELSE <<p, <<>>>>

\* os.path.basename(p)
Basename(p) == SubSeq(p, RFind(p, "/") + 1, Len(p))

\* utils.clean_url: the URL without surrounding blanks, query and fragment
clean_url(url) ==
    LET s == Strip(url) IN SubSeq(s, 1, FindAny(s, {"?", "#"}) - 1)

Letters ==
    {"A", "D", "E", "F", "I", "J", "P", "Q", "T", "W", "Y",
     "a", "b", "c", "d", "e", "f", "g", "h", "i", "j", "k", "l", "m", "n", "o", "p",
     "q", "r", "s", "t", "u", "v", "w", "x", "y", "z"}
Digits == {"0", "1", "2", "3", "4", "5", "6", "7", "8", "9"}

\* utils.clean_filename: the characters that are safe in a file name; the
\* strict mode keeps letters and digits only.
clean_filename(s, unrestricted) ==
    LET keep == IF unrestricted THEN Letters \cup Digits \cup {".", "_", "@", " "}
                ELSE Letters \cup Digits
    IN  SelectSeq(s, LAMBDA c : c \in keep)

\* define.COURSERA_URL and utils.make_coursera_absolute_url: a URL with no
\* scheme is resolved against the site's base.
COURSERA_URL == <<"h", ":", "/", "/", "c">>
make_coursera_absolute_url(url) ==
    IF \E i \in 1..Len(url) : url[i] = ":" THEN url ELSE COURSERA_URL \o url

----------------------------------------------------------------------------
(* LinkBucket: a dict from extension to a list of (url, title) *)

EmptyBucket == [k \in {} |-> <<>>]

\* destination[extension].append(entry), the key created when absent
BucketAppend(b, key, entry) ==
    [k \in DOMAIN b \cup {key} |->
        IF k = key
        THEN Append(IF key \in DOMAIN b THEN b[key] ELSE <<>>, entry)
        ELSE b[k]]

HasUrl(list, url) == \E i \in 1..Len(list) : list[i][1] = url

\* each entry of b is appended to a unless a holds an entry with its URL
RECURSIVE MergeList(_, _)
MergeList(a, b) ==
    IF b = <<>> THEN a
    ELSE MergeList(IF HasUrl(a, Head(b)[1]) THEN a ELSE Append(a, Head(b)),
                   Tail(b))

\* utils.extend_supplement_links(destination, source): Merge(A, B)
extend_supplement_links(destination, source) ==
    [k \in DOMAIN destination \cup DOMAIN source |->
        IF k \in DOMAIN source
        THEN MergeList(IF k \in DOMAIN destination THEN destination[k] ELSE <<>>,
                       source[k])
        ELSE destination[k]]

\* the (extension, url) pairs of a bucket
Pairs(b) == UNION {{<<k, b[k][i][1]>> : i \in 1..Len(b[k])} : k \in DOMAIN b}

----------------------------------------------------------------------------
(* CourseraOnDemand: the video resolver *)

Reverse(s) == [i \in 1..Len(s) |-> s[Len(s) + 1 - i]]

\* list.sort(key = resolution) is stable: x goes after the elements that do
\* not compare greater than it.
RECURSIVE InsertByResolution(_, _)
InsertByResolution(sorted, x) ==
    IF sorted = <<>> THEN <<x>>
    ELSE IF StrLess(x.resolution, Head(sorted).resolution)
         THEN <<x>> \o sorted
         ELSE <<Head(sorted)>> \o InsertByResolution(Tail(sorted), x)

RECURSIVE SortByResolution(_)
SortByResolution(s) ==
    IF s = <<>> THEN <<>>
    ELSE InsertByResolution(SortByResolution(SubSeq(s, 1, Len(s) - 1)), s[Len(s)])

subtitle_nodes ==
    << [node |-> "subtitles",    extension |-> <<"s", "r", "t">>],
       [node |-> "subtitlesTxt", extension |-> <<"t", "x", "t">>] >>

EN == <<"e", "n">>
ALL == <<"a", "l", "l">>
MP4 == <<"m", "p", "4">>

Raised(exc) == [status |-> "raised", value |-> EmptyBucket, exc |-> exc]
Returned(b) == [status |-> "returned", value |-> b, exc |-> "none"]
NoResult == [status |-> "none", value |-> EmptyBucket, exc |-> "none"]

\* lines 597-606: the video lookup, then sort ascending and reverse
VideoFetch ==
    /\ pc = "video_fetch"
    /\ calls' = Append(calls, [kind |-> "video", id |-> <<>>])
    /\ IF env.fail = "video"
       THEN /\ pc' = "raised"
            /\ result' = Raised("network")
            /\ UNCHANGED sources
       ELSE /\ sources' = Reverse(SortByResolution(env.video.sources))
            /\ pc' = "video_select"
            /\ UNCHANGED result
    /\ UNCHANGED <<in_assets, in_subtitle_language, resolution, subtitle_language, env, assets,
                   video_content, track, links, asset_links, ai, diag>>
    /\ UNCHANGED <<qvars, mvars, avars>>

\* lines 609-625: the sources of the requested resolution, all of them when
\* there is none; the first one's video/mp4 URL goes under 'mp4'
VideoSelect ==
    /\ pc = "video_select"
    /\ LET filtered_sources ==
               SelectSeq(sources, LAMBDA source : source.resolution = resolution)
           chosen == IF Len(filtered_sources) = 0 THEN sources ELSE filtered_sources
       IN  /\ diag' = IF Len(filtered_sources) = 0
                      THEN Append(diag, [what |-> "resolution", where |-> "video"])
                      ELSE diag
           /\ sources' = chosen
           /\ IF chosen = <<>>
              THEN /\ pc' = "raised"
                   /\ result' = Raised("IndexError")
                   /\ UNCHANGED <<video_content, track>>
              ELSE IF "video/mp4" \notin DOMAIN chosen[1].formatSources
              THEN /\ pc' = "raised"
                   /\ result' = Raised("KeyError")
                   /\ UNCHANGED <<video_content, track>>
              ELSE /\ video_content' = [k \in {MP4} |-> chosen[1].formatSources["video/mp4"]]
                   /\ track' = 1
                   /\ pc' = "subtitles"
                   /\ UNCHANGED result
    /\ UNCHANGED <<in_assets, in_subtitle_language, resolution, subtitle_language, env, assets,
                   links, asset_links, ai, calls>>
    /\ UNCHANGED <<qvars, mvars, avars>>

\* video_content[key] = value
DictSet(d, key, value) ==
    [k \in DOMAIN d \cup {key} |-> IF k = key THEN value ELSE d[k]]

\* every entry stored under the requested language ('all') instead of its own
AllSubtitlesOneKey(content, subtitles, extension) ==
    IF DOMAIN subtitles = {} THEN content
    ELSE DictSet(content, ALL \o <<".">> \o extension,
                 make_coursera_absolute_url(
                     subtitles[CHOOSE l \in DOMAIN subtitles : TRUE]))

\* lines 636-638: one entry per language of the track
AllSubtitles(content, subtitles, extension) ==
    [k \in DOMAIN content \cup {l \o <<".">> \o extension : l \in DOMAIN subtitles} |->
        IF \E l \in DOMAIN subtitles : k = l \o <<".">> \o extension
        THEN make_coursera_absolute_url(
                 subtitles[CHOOSE l \in DOMAIN subtitles : k = l \o <<".">> \o extension])
        ELSE content[k]]

\* lines 640-644: the language the track is asked for, after the fallback
FallbackLanguage(language, subtitles) ==
    IF language # EN /\ language \notin DOMAIN subtitles THEN EN ELSE language

\* lines 632-649: one iteration of the loop over subtitle_nodes
SubtitleTrack ==
    /\ pc = "subtitles"
    /\ track <= Len(subtitle_nodes)
    /\ LET node == subtitle_nodes[track]
           subtitles == env.video[node.node]
           language == FallbackLanguage(subtitle_language, subtitles.map)
       IN  IF ~subtitles.present
           THEN UNCHANGED <<video_content, subtitle_language, diag>>
           ELSE IF subtitle_language = ALL
           THEN /\ video_content' =
                       AllSubtitles(video_content, subtitles.map, node.extension)
                /\ UNCHANGED <<subtitle_language, diag>>
           ELSE /\ diag' = IF language # subtitle_language
                           THEN Append(diag, [what |-> "language", where |-> node.node])
                           ELSE diag
                /\ subtitle_language' = language
                /\ video_content' =
                       IF language \in DOMAIN subtitles.map
                       THEN DictSet(video_content, language \o <<".">> \o node.extension,
                                    make_coursera_absolute_url(subtitles.map[language]))
                       ELSE video_content
    /\ track' = track + 1
    /\ UNCHANGED <<pc, result, in_assets, in_subtitle_language, resolution, env, assets, sources,
                   links, asset_links, ai, calls>>
    /\ UNCHANGED <<qvars, mvars, avars>>

\* lines 651-655 and 437: every value becomes a one-element list, title ''
VideoReturn ==
    /\ pc = "subtitles"
    /\ track > Len(subtitle_nodes)
    /\ links' = [k \in DOMAIN video_content |-> << <<video_content[k], <<>> >> >>]
    /\ pc' = "normalize"
    /\ UNCHANGED <<result, in_assets, in_subtitle_language, resolution, subtitle_language, env, assets,
                   sources, video_content, track, asset_links, ai, calls, diag>>
    /\ UNCHANGED <<qvars, mvars, avars>>

----------------------------------------------------------------------------
(* CourseraOnDemand: lecture assets *)

UncutIdLen == 24

\* the cut applied to every id of 24 characters or more
NormalizeIdAtLeast(asset) ==
    IF Len(asset) >= UncutIdLen THEN SubSeq(asset, 1, Len(asset) - 2) ELSE asset

\* lines 463-468: an id of 24 characters loses its last two
NormalizeId(asset) ==
    IF Len(asset) = UncutIdLen THEN SubSeq(asset, 1, Len(asset) - 2) ELSE asset

\* lines 446-470
_normalize_assets(a) == [i \in 1..Len(a) |-> NormalizeId(a[i])]

\* line 440
NormalizeAssets ==
    /\ pc = "normalize"
    /\ assets' = _normalize_assets(in_assets)
    /\ asset_links' = EmptyBucket
    /\ ai' = 1
    /\ pc' = "assets"
    /\ UNCHANGED <<result, in_assets, in_subtitle_language, resolution, subtitle_language, env, sources,
                   video_content, track, links, calls, diag>>
    /\ UNCHANGED <<qvars, mvars, avars>>

\* lines 567-590: the second-level lookup of one inner asset id
_get_open_course_asset_urls(asset_id) ==
    IF env.fail = "second" \/ asset_id \notin DOMAIN env.second
    THEN [ok |-> FALSE, urls |-> <<>>]
    ELSE [ok |-> TRUE,
          urls |-> [i \in 1..Len(env.second[asset_id]) |->
                      [name |-> Strip(env.second[asset_id][i].name),
                       url |-> Strip(env.second[asset_id][i].url)]]]

\* the elements of a first-level reply where an element of an unknown type
\* ends the operation
RECURSIVE AssetElementsUnknownFatal(_, _)
AssetElementsUnknownFatal(elements, acc) ==
    IF elements = <<>> \/ ~acc.ok THEN acc
    ELSE LET element == Head(elements)
             inner == _get_open_course_asset_urls(element.assetId)
         IN  AssetElementsUnknownFatal(Tail(elements),
               IF element.typeName = "asset"
               THEN [acc EXCEPT
                       !.calls = Append(@, [kind |-> "second", id |-> element.assetId]),
                       !.ok = inner.ok,
                       !.urls = @ \o inner.urls]
               ELSE IF element.typeName = "url"
               THEN [acc EXCEPT !.urls = Append(@, [name |-> Strip(element.name),
                                                    url |-> Strip(element.url)])]
               ELSE [acc EXCEPT !.ok = FALSE])

\* lines 525-563: the elements of a first-level reply, in order; acc holds the
\* records, the lookups and the diagnostics so far
RECURSIVE AssetElements(_, _)
AssetElements(elements, acc) ==
    IF elements = <<>> \/ ~acc.ok THEN acc
    ELSE LET element == Head(elements)
             inner == _get_open_course_asset_urls(element.assetId)
         IN  AssetElements(Tail(elements),
               IF element.typeName = "asset"
               THEN [acc EXCEPT
                       !.calls = Append(@, [kind |-> "second", id |-> element.assetId]),
                       !.ok = inner.ok,
                       !.urls = @ \o [i \in 1..Len(inner.urls) |->
                                        [name |-> Strip(inner.urls[i].name),
                                         url |-> Strip(inner.urls[i].url)]]]
               ELSE IF element.typeName = "url"
               THEN [acc EXCEPT !.urls = Append(@, [name |-> Strip(element.name),
                                                    url |-> Strip(element.url)])]
               ELSE [acc EXCEPT !.diag = Append(@, [what |-> "typeName",
                                                    where |-> element.typeName])])

\* a first-level lookup whose failure is caught and answered with no record
_get_asset_urls_swallowed(asset_id) ==
    LET start == [ok |-> TRUE, urls |-> <<>>, diag |-> <<>>,
                  calls |-> <<[kind |-> "first", id |-> asset_id]>>]
    IN  IF env.fail = "first" \/ asset_id \notin DOMAIN env.first
        THEN start
        ELSE AssetElements(env.first[asset_id], start)

\* lines 506-565: the first-level lookup of one asset id
_get_asset_urls(asset_id) ==
    LET start == [ok |-> TRUE, urls |-> <<>>, diag |-> <<>>,
                  calls |-> <<[kind |-> "first", id |-> asset_id]>>]
    IN  IF env.fail = "first" \/ asset_id \notin DOMAIN env.first
        THEN [start EXCEPT !.ok = FALSE]
        ELSE AssetElements(env.first[asset_id], start)

\* lines 483-498
_add_asset(name, url, destination) ==
    LET split == SplitExt(clean_url(name))
        extension == clean_filename(Strip(StripDot(Lower(split[2]))), env.unrestricted)
        basename == clean_filename(Basename(split[1]), env.unrestricted)
    IN  IF split[2] = <<>> THEN destination
        ELSE BucketAppend(destination, extension, <<Strip(url), basename>>)

RECURSIVE AddAssets(_, _)
AddAssets(urls, destination) ==
    IF urls = <<>> THEN destination
    ELSE AddAssets(Tail(urls), _add_asset(Head(urls).name, Head(urls).url, destination))

\* lines 500-502: one iteration of the loop over asset_ids
GetAssetUrls ==
    /\ pc = "assets"
    /\ ai <= Len(assets)
    /\ LET got == _get_asset_urls(assets[ai])
       IN  /\ calls' = calls \o got.calls
           /\ diag' = diag \o got.diag
           /\ IF got.ok
              THEN /\ asset_links' = AddAssets(got.urls, asset_links)
                   /\ ai' = ai + 1
                   /\ UNCHANGED <<pc, result>>
              ELSE /\ pc' = "raised"
                   /\ result' = Raised("network")
                   /\ UNCHANGED <<asset_links, ai>>
    /\ UNCHANGED <<in_assets, in_subtitle_language, resolution, subtitle_language, env, assets, sources,
                   video_content, track, links>>
    /\ UNCHANGED <<qvars, mvars, avars>>

\* links.update(assets): a key of the assets replaces the key of the videos
MergeLectureLinksUpdate(video_links, lecture_assets) ==
    [k \in DOMAIN video_links \cup DOMAIN lecture_assets |->
        IF k \in DOMAIN lecture_assets THEN lecture_assets[k] ELSE video_links[k]]

\* lines 441-442
MergeLectureLinks(video_links, lecture_assets) ==
    extend_supplement_links(video_links, lecture_assets)

LectureReturn ==
    /\ pc = "assets"
    /\ ai > Len(assets)
    /\ links' = MergeLectureLinks(links, asset_links)
    /\ result' = Returned(links')
    /\ pc' = "done"
    /\ UNCHANGED <<in_assets, in_subtitle_language, resolution, subtitle_language, env, assets, sources,
                   video_content, track, asset_links, ai, calls, diag>>
    /\ UNCHANGED <<qvars, mvars, avars>>

NextLecture ==
    \/ VideoFetch
    \/ VideoSelect
    \/ SubtitleTrack
    \/ VideoReturn
    \/ NormalizeAssets
    \/ GetAssetUrls
    \/ LectureReturn

----------------------------------------------------------------------------
(* The inputs of extract_links_from_lecture and the endpoints' answers *)

MaxSources == 3     \* sources of a video reply
MaxLangs == 2       \* languages a subtitle track may offer
MaxAssets == 2      \* asset ids of a lecture
MaxElements == 2    \* elements of a first-level asset reply

\* all sequences over S of length at most n
SeqUpTo(S, n) == UNION {[1..k -> S] : k \in 0..n}

R360 == <<"3", "6", "0", "p">>
R540 == <<"5", "4", "0", "p">>
R720 == <<"7", "2", "0", "p">>
R1080 == <<"1", "0", "8", "0", "p">>
Resolutions == {R360, R540, R720, R1080}

\* the number a resolution label stands for
Pixels(r) ==
    CASE r = R360 -> 360 [] r = R540 -> 540 [] r = R720 -> 720 [] r = R1080 -> 1080

DigitChar == <<"1", "2", "3", "4", "5", "6", "7", "8", "9">>

VideoUrl(r, n) == <<"h", ":", "/", "/", "v", "/">> \o r \o <<DigitChar[n]>>

\* a source of the video reply; kind "webm" has no video/mp4 format
Source(r, kind, n) ==
    [resolution |-> r,
     formatSources |-> IF kind = "mp4"
                       THEN [f \in {"video/mp4", "video/webm"} |-> VideoUrl(r, n)]
                       ELSE [f \in {"video/webm"} |-> VideoUrl(r, n)]]

SourceKinds == (Resolutions \X {"mp4"}) \cup {<<R720, "webm">>}

SourceLists ==
    {[i \in DOMAIN ks |-> Source(ks[i][1], ks[i][2], i)] : ks \in SeqUpTo(SourceKinds, MaxSources)}

Languages == << EN, <<"e", "s">>, <<"f", "r">>, <<"z", "h">> >>
OfferedLanguages == {Languages[i] : i \in 1..MaxLangs}
RequestedLanguages == {Languages[i] : i \in 1..(MaxLangs + 1)} \cup {ALL}

\* the URL of a track in a language; English ones are relative
SubtitleUrl(l, n) ==
    IF l = EN THEN <<"/">> \o l \o <<DigitChar[n]>>
    ELSE <<"h", ":", "/", "/", "s", "/">> \o l \o <<DigitChar[n]>>

NoTrack == [present |-> FALSE, map |-> EmptyBucket]
Tracks(n) ==
    {NoTrack} \cup
    {[present |-> TRUE, map |-> [l \in L |-> SubtitleUrl(l, n)]] : L \in SUBSET OfferedLanguages}

Video(ss, subs, txt) == [sources |-> ss, subtitles |-> subs, subtitlesTxt |-> txt]

Id22 == <<"g", "i", "A", "x", "u", "c", "d", "a", "E", "e", "W", "J", "T", "Q",
          "5", "W", "T", "i", "8", "Y", "J", "Q">>
Id23 == Id22 \o <<"@">>
Id24 == Id22 \o <<"@", "1">>
Id25 == Id22 \o <<"@", "1", "0">>
Id24b == <<"p", "h", "x", "n", "l", "m", "c", "e", "W", "J", "T", "Q", "P", "D",
           "F", "a", "d", "s", "r", "t", "v", "u", "z", "9">>
Id2 == <<"a", "1">>
AssetIds == {Id22, Id23, Id24, Id25, Id24b, Id2}

\* OPENCOURSE_ASSETS_URL answers an id of 24 characters with a routing error
\* (lines 448-453)
KnownIds == {Id22, Id23, Id25, SubSeq(Id24b, 1, 22), Id2}

Inner1 == <<"i", "1">>
U1 == <<"h", ":", "/", "/", "x", "/", "1">>
U2 == <<" ", "h", ":", "/", "/", "x", "/", "2">>

UrlElement(name, url) ==
    [typeName |-> "url", assetId |-> <<>>, name |-> name, url |-> url]
AssetElement(id) ==
    [typeName |-> "asset", assetId |-> id, name |-> <<>>, url |-> <<>>]
OtherElement ==
    [typeName |-> "other", assetId |-> <<>>, name |-> <<>>, url |-> <<>>]

Elements ==
    { UrlElement(<<"a", ".", "p", "d", "f">>, U1),
      UrlElement(<<"b", ".", "P", "D", "F", " ">>, U1),
      UrlElement(<<"v", ".", "m", "p", "4">>, VideoUrl(R540, 1)),
      AssetElement(Inner1),
      OtherElement }

SecondReplies ==
    [i \in {Inner1} |->
        << [name |-> <<"s", "/", "c", ".", "p", "d", "f">>, url |-> U1],
           [name |-> <<"n">>, url |-> U2] >>]

Replies == SeqUpTo(Elements, MaxElements)

\* the reply every known id gets in the families that do not vary it
FixedFirst ==
    [id \in KnownIds |-> << UrlElement(<<"a", ".", "p", "d", "f">>, U1 \o id) >>]

\* the reply to the one id of the families that do not look assets up
SmallFirst == [id \in {Id2} |-> << UrlElement(<<"a", ".", "p", "d", "f">>, U1) >>]

FixedVideo ==
    Video(<<Source(R540, "mp4", 1)>>,
          [present |-> TRUE, map |-> [l \in {EN} |-> SubtitleUrl(l, 1)]],
          NoTrack)

ImageId1 == <<"i", "m", "1">>
ImageId2 == <<"i", "m", "2">>
ImageUrl(id) == <<" ", "h", ":", "/", "/", "i", "/">> \o id

\* OPENCOURSE_API_ASSETS_V1_URL: the url of each image asset id it knows
FixedImageAssets == [id \in {ImageId1, ImageId2} |-> ImageUrl(id)]

PNG == <<"i", "m", "a", "g", "e", "/", "p", "n", "g">>
GIF == <<"i", "m", "a", "g", "e", "/", "g", "i", "f">>

\* session.get(url): the status, the Content-Type header (<<>> when absent)
\* and the bytes
FixedFetch ==
    [url \in {Strip(ImageUrl(ImageId1)), Strip(ImageUrl(ImageId2))} |->
        IF url = Strip(ImageUrl(ImageId1))
        THEN [status |-> 200, content_type |-> GIF, content |-> <<"a", "b">>]
        ELSE [status |-> 200, content_type |-> <<>>, content |-> <<"c">>]]

Env(video, first, fail, unrestricted) ==
    [video |-> video, first |-> first, second |-> SecondReplies,
     fail |-> fail, unrestricted |-> unrestricted,
     image_assets |-> FixedImageAssets, fetch |-> FixedFetch,
     op |-> "none", values |-> <<>>, asset_urls |-> <<>>, quiz_json |-> <<>>]

InitQuizIdle == quiz = <<>> /\ qi = 0 /\ qresult = <<>>
InitMarkupIdle == text = <<>> /\ soup = <<>> /\ run = 0 /\ outs = <<>>

InitLectureLocals ==
    /\ pc = "video_fetch"
    /\ assets = in_assets
    /\ subtitle_language = in_subtitle_language
    /\ sources = <<>>
    /\ video_content = EmptyBucket
    /\ track = 1
    /\ links = EmptyBucket
    /\ asset_links = EmptyBucket
    /\ ai = 1
    /\ calls = <<>>
    /\ diag = <<>>
    /\ result = NoResult

\* the video reply varies
InitSources ==
    /\ in_assets = <<>>
    /\ resolution \in {R540, R1080}
    /\ in_subtitle_language = EN
    /\ \E ss \in SourceLists :
          env = Env(Video(ss, FixedVideo.subtitles, NoTrack), SmallFirst, "none", FALSE)

\* the subtitle tracks and the requested language vary
InitSubtitles ==
    /\ in_assets = <<>>
    /\ resolution = R540
    /\ in_subtitle_language \in RequestedLanguages
    /\ \E subs \in Tracks(1), txt \in Tracks(2) :
          env = Env(Video(FixedVideo.sources, subs, txt), SmallFirst, "none", FALSE)

\* the asset ids vary
InitAssetIds ==
    /\ in_assets \in SeqUpTo(AssetIds, MaxAssets)
    /\ resolution = R540
    /\ in_subtitle_language = EN
    /\ \E u \in BOOLEAN : env = Env(FixedVideo, FixedFirst, "none", u)

\* the first-level replies vary
InitReplies ==
    /\ in_assets = <<Id24, Id2>>
    /\ resolution = R540
    /\ in_subtitle_language = EN
    /\ \E first \in [{Id22, Id2} -> Replies] : env = Env(FixedVideo, first, "none", FALSE)

\* a lookup fails
InitFailure ==
    /\ in_assets \in {<<>>, <<Id24, Id2>>}
    /\ resolution = R540
    /\ in_subtitle_language = EN
    /\ \E fail \in {"video", "first", "second"} :
          env = Env(FixedVideo, [id \in {Id22, Id2} |-> <<AssetElement(Inner1)>>], fail, FALSE)

InitAggregateIdle == srcs = <<>> /\ merged = {} /\ order = <<>> /\ dest = EmptyBucket

InitLecture ==
    /\ InitSources \/ InitSubtitles \/ InitAssetIds \/ InitReplies \/ InitFailure
    /\ InitLectureLocals
    /\ InitQuizIdle
    /\ InitMarkupIdle
    /\ InitAggregateIdle

SpecLecture == InitLecture /\ [][NextLecture]_vars

----------------------------------------------------------------------------
(* LinkAggregator: source buckets merged into one destination, in any order *)

MaxBuckets == 3     \* source buckets merged into one destination

PDF == <<"p", "d", "f">>
ZIP == <<"z", "i", "p">>
TitleA == <<"a">>
TitleB == <<"b">>

\* buckets as the extraction passes produce them: a pass may list a URL twice
\* under one key, and two passes may give one URL different titles
SourceBuckets ==
    { EmptyBucket,
      [k \in {PDF} |-> << <<U1, TitleA>> >>],
      [k \in {PDF} |-> << <<U1, TitleB>>, <<U2, TitleA>> >>],
      [k \in {PDF} |-> << <<U2, TitleB>>, <<U1, TitleA>>, <<U2, TitleA>> >>],
      [k \in {ZIP} |-> << <<U1, TitleA>> >>],
      [k \in {PDF, ZIP} |-> IF k = PDF THEN << <<U2, TitleA>> >> ELSE << <<U2, TitleB>> >>] }

\* the lecture operation is not called; the endpoints are left open
InitLectureLocalsIdle ==
    /\ in_assets = <<>>
    /\ in_subtitle_language = EN
    /\ resolution = R540
    /\ subtitle_language = EN
    /\ assets = <<>>
    /\ sources = <<>>
    /\ video_content = EmptyBucket
    /\ track = 1
    /\ links = EmptyBucket
    /\ asset_links = EmptyBucket
    /\ ai = 1
    /\ calls = <<>>
    /\ diag = <<>>

InitLectureIdle ==
    /\ env = Env(FixedVideo, SmallFirst, "none", FALSE)
    /\ InitLectureLocalsIdle

InitAggregate ==
    /\ pc = "merge"
    /\ result = NoResult
    /\ srcs \in UNION {[1..n -> SourceBuckets] : n \in 1..MaxBuckets}
    /\ merged = {}
    /\ order = <<>>
    /\ dest = EmptyBucket
    /\ InitLectureIdle
    /\ InitQuizIdle
    /\ InitMarkupIdle

\* supplement_content.update(bucket): a key of the bucket replaces the key
MergeBucketUpdate ==
    /\ pc = "merge"
    /\ \E i \in DOMAIN srcs \ merged :
          /\ dest' = [k \in DOMAIN dest \cup DOMAIN srcs[i] |->
                         IF k \in DOMAIN srcs[i] THEN srcs[i][k] ELSE dest[k]]
          /\ merged' = merged \cup {i}
          /\ order' = Append(order, i)
    /\ UNCHANGED <<pc, result, srcs, lvars, qvars, mvars>>

\* lines 711-712 and 716-717: extend_supplement_links(supplement_content, bucket)
MergeBucket ==
    /\ pc = "merge"
    /\ \E i \in DOMAIN srcs \ merged :
          /\ dest' = extend_supplement_links(dest, srcs[i])
          /\ merged' = merged \cup {i}
          /\ order' = Append(order, i)
    /\ UNCHANGED <<pc, result, srcs, lvars, qvars, mvars>>

\* line 719
AggregateReturn ==
    /\ pc = "merge"
    /\ merged = DOMAIN srcs
    /\ result' = Returned(dest)
    /\ pc' = "done"
    /\ UNCHANGED <<lvars, qvars, mvars, avars>>

NextAggregate == MergeBucket \/ AggregateReturn

SpecAggregate == InitAggregate /\ [][NextAggregate]_vars

----------------------------------------------------------------------------
(* QuizExamToMarkupConverter *)

KNOWN_QUESTION_TYPES == {"mcq", "checkbox", "singleNumeric", "textExactMatch"}
KNOWN_INPUT_TYPES == {"textExactMatch", "singleNumeric"}

\* One line of the converter's result. `input` is the type attribute of the
\* <input> element the line holds, "none" when it holds no <input>; `number`
\* is the number printed in the line (a header's question number, an option's
\* name attribute); `content` is the markup printed in the line.
Line(tag, number, input, content) ==
    [tag |-> tag, number |-> number, input |-> input, content |-> content]

TagText == <<"t", "e", "x", "t">>
TagSpan == <<"s", "p", "a", "n">>

\* lines 115-119: every <text> of the option becomes <span>; the option's
\* markup is the sequence of its tags' names
_replace_tag(markup, initial_tag, target_tag) ==
    [i \in 1..Len(markup) |-> IF markup[i] = initial_tag THEN target_tag ELSE markup[i]]

\* lines 121-123
_generate_input_field == << Line("field", 0, "text", <<>>) >>

\* lines 97-113
_convert_options(question_index, options, input_type) ==
    IF options = <<>> THEN <<>>
    ELSE << Line("form", 0, "none", <<>>) >>
         \o [i \in 1..Len(options) |->
                Line("option", question_index, input_type,
                     _replace_tag(options[i], TagText, TagSpan))]
         \o << Line("/form", 0, "none", <<>>) >>

\* lines 82-85
InputType(question_type) ==
    CASE question_type = "mcq" -> "radio"
      [] question_type = "checkbox" -> "checkbox"
      [] OTHER -> ""

\* the lines of an iteration that skips a question of an unknown type
QuestionLinesSkipUnknown(question_index, question_json) ==
    IF question_json.type \notin KNOWN_QUESTION_TYPES THEN <<>>
    ELSE << Line("h3", question_index + 1, "none", <<>>),
            Line("prompt", 0, "none", question_json.prompt) >>
         \o (IF question_json.type \in KNOWN_INPUT_TYPES
             THEN _generate_input_field ELSE <<>>)
         \o _convert_options(question_index, question_json.options,
                             InputType(question_json.type))
         \o << Line("hr", 0, "none", <<>>) >>

\* lines 59-91: the lines one question adds to the result
QuestionLines(question_index, question_json) ==
    << Line("h3", question_index + 1, "none", <<>>),
       Line("prompt", 0, "none", question_json.prompt) >>
    \o (IF question_json.type \in KNOWN_INPUT_TYPES
        THEN _generate_input_field ELSE <<>>)
    \o _convert_options(question_index, question_json.options,
                        InputType(question_json.type))
    \o << Line("hr", 0, "none", <<>>) >>

\* lines 58-91: one iteration of the loop over the questions; an unknown
\* type is logged (lines 60-64)
ConvertQuestion ==
    /\ pc = "quiz"
    /\ qi < Len(quiz)
    /\ qresult' = qresult \o QuestionLines(qi, quiz[qi + 1])
    /\ diag' = IF quiz[qi + 1].type \notin KNOWN_QUESTION_TYPES
               THEN Append(diag, [what |-> "question type", where |-> quiz[qi + 1].type])
               ELSE diag
    /\ qi' = qi + 1
    /\ UNCHANGED <<pc, result, quiz, mvars, avars>>
    /\ UNCHANGED <<in_assets, in_subtitle_language, resolution, subtitle_language,
                   env, assets, sources, video_content, track, links, asset_links,
                   ai, calls>>

\* line 93: the lines joined are the markup returned
QuizReturn ==
    /\ pc = "quiz"
    /\ qi = Len(quiz)
    /\ pc' = "quiz_done"
    /\ UNCHANGED <<result, lvars, qvars, mvars, avars>>

NextQuiz == ConvertQuestion \/ QuizReturn

MaxQuestions == 2   \* questions of a quiz
MaxOptions == 1     \* options of a question

QuestionTypes == KNOWN_QUESTION_TYPES \cup {"mcqReflect"}
Prompts == {<<TagText>>, <<TagText, <<"c", "o", "d", "e">> >>}
OptionMarkups == {<<TagText>>}

\* question_json['question']['type'], ['variant']['definition']['prompt'] and
\* ['variant']['definition'].get('options', [])
\* (a question answered by typing has no options)
Questions ==
    {q \in [type : QuestionTypes, prompt : Prompts,
            options : SeqUpTo(OptionMarkups, MaxOptions)] :
        q.type \in KNOWN_INPUT_TYPES => q.options = <<>>}

InitQuiz ==
    /\ pc = "quiz"
    /\ result = NoResult
    /\ quiz \in SeqUpTo(Questions, MaxQuestions)
    /\ qi = 0
    /\ qresult = <<>>
    /\ InitLectureIdle
    /\ InitMarkupIdle
    /\ InitAggregateIdle

SpecQuiz == InitQuiz /\ [][NextQuiz]_vars

----------------------------------------------------------------------------
(* MarkupToHTMLConverter *)

\* A document is the sequence of its nodes in document order: a tag with its
\* name and attributes, or a string with its value.
Tag(name, attrs) == [kind |-> "tag", name |-> name, attrs |-> attrs, value |-> <<>>]
Str(value) == [kind |-> "str", name |-> <<>>, attrs |-> EmptyBucket, value |-> value]

NoAttrs == EmptyBucket
Attr(name, value) == [a \in {name} |-> value]

\* BeautifulSoup(text): html.parser gives tag and attribute names in lower case
BeautifulSoup(markup) ==
    [i \in 1..Len(markup) |->
        IF markup[i].kind = "tag"
        THEN [markup[i] EXCEPT
                !.name = Lower(@),
                !.attrs = [a \in {Lower(x) : x \in DOMAIN markup[i].attrs} |->
                              markup[i].attrs[CHOOSE x \in DOMAIN markup[i].attrs :
                                                  Lower(x) = a]]]
        ELSE markup[i]]

\* soup.prettify(): every string is written stripped, a blank one not at all
Prettify(document) ==
    LET stripped == [i \in 1..Len(document) |->
                        IF document[i].kind = "str"
                        THEN Str(Strip(document[i].value))
                        ELSE document[i]]
    IN  SelectSeq(stripped, LAMBDA n : n.kind = "tag" \/ n.value # <<>>)

\* soup.find(name): the index of the first tag of that name, 0 when none
Find(document, name) ==
    IF \E i \in 1..Len(document) : document[i].kind = "tag" /\ document[i].name = name
    THEN CHOOSE i \in 1..Len(document) :
            /\ document[i].kind = "tag" /\ document[i].name = name
            /\ \A j \in 1..(i-1) : ~(document[j].kind = "tag" /\ document[j].name = name)
    ELSE 0

TagHeading == <<"h", "e", "a", "d", "i", "n", "g">>
TagCode == <<"c", "o", "d", "e">>
TagList == <<"l", "i", "s", "t">>
TagImg == <<"i", "m", "g">>
TagP == <<"p">>
TagPre == <<"p", "r", "e">>
TagOl == <<"o", "l">>
TagUl == <<"u", "l">>
TagStyle == <<"s", "t", "y", "l", "e">>
AttrLevel == <<"l", "e", "v", "e", "l">>
AttrBulletType == <<"b", "u", "l", "l", "e", "t", "t", "y", "p", "e">>
AttrAssetId == <<"a", "s", "s", "e", "t", "i", "d">>
AttrSrc == <<"s", "r", "c">>
Numbers == <<"n", "u", "m", "b", "e", "r", "s">>
Bullets == <<"b", "u", "l", "l", "e", "t", "s">>

\* define.INSTRUCTIONS_HTML_INJECTION: the fixed CSS block
INSTRUCTIONS_HTML_INJECTION == << Tag(TagStyle, NoAttrs) >>

\* attrs.get(name, default)
AttrGet(node, name, default) ==
    IF name \in DOMAIN node.attrs THEN node.attrs[name] ELSE default

MarkupUnchanged ==
    UNCHANGED <<result, in_assets, in_subtitle_language, resolution,
                subtitle_language, env, assets, sources, video_content, track,
                links, asset_links, ai, diag, qvars, avars>>

\* line 141
MarkupParse ==
    /\ pc = "markup"
    /\ soup' = BeautifulSoup(text)
    /\ pc' = "inject"
    /\ UNCHANGED <<text, run, outs, calls>>
    /\ MarkupUnchanged

\* lines 155-156
InjectCss ==
    /\ pc = "inject"
    /\ soup' = soup \o BeautifulSoup(INSTRUCTIONS_HTML_INJECTION)
    /\ pc' = "text"
    /\ UNCHANGED <<text, run, outs, calls>>
    /\ MarkupUnchanged

\* lines 159-160: one turn of the loop, or its end
ConvertText ==
    /\ pc = "text"
    /\ LET i == Find(soup, TagText)
       IN  IF i # 0
           THEN soup' = [soup EXCEPT ![i].name = TagP] /\ UNCHANGED pc
           ELSE pc' = "heading" /\ UNCHANGED soup
    /\ UNCHANGED <<text, run, outs, calls>>
    /\ MarkupUnchanged

\* lines 163-165
ConvertHeading ==
    /\ pc = "heading"
    /\ LET i == Find(soup, TagHeading)
       IN  IF i # 0
           THEN /\ soup' = [soup EXCEPT
                              ![i].name = <<"h">> \o AttrGet(soup[i], AttrLevel, <<"1">>)]
                /\ UNCHANGED pc
           ELSE pc' = "code" /\ UNCHANGED soup
    /\ UNCHANGED <<text, run, outs, calls>>
    /\ MarkupUnchanged

\* lines 168-169
ConvertCode ==
    /\ pc = "code"
    /\ LET i == Find(soup, TagCode)
       IN  IF i # 0
           THEN soup' = [soup EXCEPT ![i].name = TagPre] /\ UNCHANGED pc
           ELSE pc' = "list" /\ UNCHANGED soup
    /\ UNCHANGED <<text, run, outs, calls>>
    /\ MarkupUnchanged

\* lines 173-175: the name a <list> gets
ListName(list_) ==
    IF AttrGet(list_, AttrBulletType, Numbers) = Numbers THEN TagOl ELSE TagUl

\* lines 172-175
ConvertList ==
    /\ pc = "list"
    /\ LET i == Find(soup, TagList)
       IN  IF i # 0
           THEN soup' = [soup EXCEPT ![i].name = ListName(soup[i])] /\ UNCHANGED pc
           ELSE pc' = "images" /\ UNCHANGED soup
    /\ UNCHANGED <<text, run, outs, calls>>
    /\ MarkupUnchanged

\* ','.join(ids)
RECURSIVE Join(_)
Join(ids) ==
    IF ids = <<>> THEN <<>>
    ELSE IF Len(ids) = 1 THEN ids[1]
    ELSE ids[1] \o <<",">> \o Join(Tail(ids))

\* base64.b64encode(content).decode(): an encoding of the bytes that is
\* one-to-one and leaves no byte as it was (each byte followed by '=')
RECURSIVE b64encode(_)
b64encode(content) ==
    IF content = <<>> THEN <<>>
    ELSE <<Head(content), "=">> \o b64encode(Tail(content))

\* lines 205-207
DataUri(request) ==
    <<"d", "a", "t", "a", ":">>
    \o (IF request.content_type = <<>> THEN PNG ELSE request.content_type)
    \o <<";", "b", "a", "s", "e", "6", "4", ",">>
    \o b64encode(request.content)

\* lines 186-187: the indices of the images that carry an assetid
Images(document) ==
    SelectSeq([i \in 1..Len(document) |-> i],
              LAMBDA i : /\ document[i].kind = "tag"
                         /\ document[i].name = TagImg
                         /\ AttrAssetId \in DOMAIN document[i].attrs)

\* lines 200-207: the images from the k-th on; st holds the document and
\* whether an exception has left the loop
RECURSIVE InlineImages(_, _, _)
InlineImages(images, k, st) ==
    IF k > Len(images) \/ ~st.ok THEN st
    ELSE LET i == images[k]
             id == st.soup[i].attrs[AttrAssetId]
             url == Strip(env.image_assets[id])
         IN  IF id \notin DOMAIN env.image_assets
             THEN [st EXCEPT !.ok = FALSE, !.exc = "KeyError"]
             ELSE IF url \notin DOMAIN env.fetch
             THEN [st EXCEPT !.ok = FALSE, !.exc = "network"]
             ELSE InlineImages(images, k + 1,
                    IF env.fetch[url].status = 200
                    THEN [st EXCEPT !.soup[i].attrs =
                            DictSet(@, AttrSrc, DataUri(env.fetch[url]))]
                    ELSE st)

\* lines 186-207
ConvertImages ==
    /\ pc = "images"
    /\ LET images == Images(soup)
           asset_ids == [k \in 1..Len(images) |-> soup[images[k]].attrs[AttrAssetId]]
           done == InlineImages(images, 1, [soup |-> soup, ok |-> TRUE, exc |-> "none"])
       IN  IF images = <<>>
           THEN pc' = "prettify" /\ UNCHANGED <<soup, calls, result>>
           ELSE /\ calls' = Append(calls, [kind |-> "image_assets", id |-> Join(asset_ids)])
                /\ IF env.fail = "image_assets"
                   THEN pc' = "raised" /\ result' = Raised("network") /\ UNCHANGED soup
                   ELSE IF ~done.ok
                   THEN pc' = "raised" /\ result' = Raised(done.exc) /\ UNCHANGED soup
                   ELSE pc' = "prettify" /\ soup' = done.soup /\ UNCHANGED result
    /\ UNCHANGED <<text, run, outs>>
    /\ UNCHANGED <<in_assets, in_subtitle_language, resolution, subtitle_language,
                   env, assets, sources, video_content, track, links, asset_links,
                   ai, diag, qvars, avars>>

\* line 144
MarkupReturn ==
    /\ pc = "prettify"
    /\ outs' = Append(outs, Prettify(soup))
    /\ run' = run + 1
    /\ pc' = "converted"
    /\ UNCHANGED <<text, soup, calls>>
    /\ MarkupUnchanged

MaxRuns == 2        \* conversions of one document, each on the output of the last
MaxNodes == 2       \* nodes of the markup handed to the converter

\* lines 130-141: the converter called on the document it returned
Reconvert ==
    /\ pc = "converted"
    /\ run < MaxRuns
    /\ text' = outs[run]
    /\ pc' = "markup"
    /\ UNCHANGED <<soup, run, outs, calls>>
    /\ MarkupUnchanged

NextMarkup ==
    \/ MarkupParse
    \/ InjectCss
    \/ ConvertText
    \/ ConvertHeading
    \/ ConvertCode
    \/ ConvertList
    \/ ConvertImages
    \/ MarkupReturn
    \/ Reconvert

\* the nodes of Coursera's markup, as the API writes them
MarkupNodes ==
    { Tag(TagText, NoAttrs),
      Tag(TagHeading, Attr(AttrLevel, <<"2">>)),
      Tag(TagHeading, NoAttrs),
      Tag(TagCode, NoAttrs),
      Tag(TagList, Attr(<<"b", "u", "l", "l", "e", "t", "T", "y", "p", "e">>, Numbers)),
      Tag(TagList, Attr(<<"b", "u", "l", "l", "e", "t", "T", "y", "p", "e">>, Bullets)),
      Tag(TagList, NoAttrs),
      Tag(TagImg, Attr(<<"a", "s", "s", "e", "t", "I", "d">>, ImageId1)),
      Tag(TagImg, Attr(AttrSrc, <<"x", ".", "p", "n", "g">>)),
      Tag(TagP, NoAttrs),
      Str(<<" ", "a", " ">>) }

\* the markup varies
InitMarkupNodes ==
    /\ text \in SeqUpTo(MarkupNodes, MaxNodes)
    /\ env = Env(FixedVideo, SmallFirst, "none", FALSE)

Image(id) == Tag(TagImg, Attr(<<"a", "s", "s", "e", "t", "I", "d">>, id))

\* what session.get may answer for the URL of an image
Fetches ==
    { [status |-> 200, content_type |-> GIF, content |-> <<"a", "b">>],
      [status |-> 200, content_type |-> <<>>, content |-> <<"c">>],
      [status |-> 404, content_type |-> <<>>, content |-> <<>>] }

\* the images' lookups vary: the reply of OPENCOURSE_API_ASSETS_V1_URL may
\* miss an id, session.get may fail (the URL is outside the domain of fetch)
\* or answer with another status than 200
InitMarkupImages ==
    /\ text \in {<<Image(ImageId1)>>, <<Image(ImageId1), Tag(TagText, NoAttrs), Image(ImageId2)>>}
    /\ \E ids \in SUBSET {ImageId1, ImageId2}, urls \in SUBSET {ImageId1, ImageId2},
          fail \in {"none", "image_assets"} :
        \E fetch \in [{Strip(ImageUrl(id)) : id \in urls} -> Fetches] :
            env = [Env(FixedVideo, SmallFirst, fail, FALSE) EXCEPT
                      !.image_assets = [id \in ids |-> ImageUrl(id)],
                      !.fetch = fetch]

InitMarkup ==
    /\ pc = "markup"
    /\ result = NoResult
    /\ InitMarkupNodes \/ InitMarkupImages
    /\ soup = <<>>
    /\ run = 0
    /\ outs = <<>>
    /\ InitLectureLocalsIdle
    /\ InitQuizIdle
    /\ InitAggregateIdle

SpecMarkup == InitMarkup /\ [][NextMarkup]_vars

----------------------------------------------------------------------------
(* Links in a text: extract_links_from_programming, extract_links_from_supplement *)

MaxTags == 2        \* tags of a text

TagA == <<"a">>
TagAsset == <<"a", "s", "s", "e", "t">>
AttrHref == <<"h", "r", "e", "f">>
AttrId == <<"i", "d">>
AttrName == <<"n", "a", "m", "e">>
AttrExtension == <<"e", "x", "t", "e", "n", "s", "i", "o", "n">>

\* the strings of a set from the greatest down
RECURSIVE SortedDescending(_)
SortedDescending(S) ==
    IF S = {} THEN <<>>
    ELSE LET greatest == CHOOSE x \in S : \A y \in S \ {x} : StrLess(y, x)
         IN  <<greatest>> \o SortedDescending(S \ {greatest})

\* sorted(S) of a set of strings
RECURSIVE Sorted(_)
Sorted(S) ==
    IF S = {} THEN <<>>
    ELSE LET least == CHOOSE x \in S : \A y \in S \ {x} : StrLess(x, y)
         IN  <<least>> \o Sorted(S \ {least})

\* lines 879-903: the loop over the sorted links
RECURSIVE AddLinks(_, _)
AddLinks(ls, supplement_links) ==
    IF ls = <<>> THEN supplement_links
    ELSE LET link == Head(ls)
             split == SplitExt(clean_url(link))
             extension == clean_filename(Strip(StripDot(Lower(split[2]))),
                                         env.unrestricted)
             basename == clean_filename(Basename(split[1]), env.unrestricted)
         IN  AddLinks(Tail(ls),
                      IF split[2] = <<>> THEN supplement_links
                      ELSE BucketAppend(supplement_links, extension, <<link, basename>>))

\* lines 873-905: the hrefs of the anchors, stripped, as a sorted set
_extract_links_from_a_tags_in_text(t) ==
    LET doc == BeautifulSoup(t)
        anchors == {j \in 1..Len(doc) : /\ doc[j].kind = "tag"
                                        /\ doc[j].name = TagA
                                        /\ AttrHref \in DOMAIN doc[j].attrs}
    IN  AddLinks(Sorted({Strip(doc[j].attrs[AttrHref]) : j \in anchors}), EmptyBucket)

\* lines 738-745: the asset tags by id, a later tag replacing an earlier one
\* of the same id; a tag with no id, name or extension raises KeyError
_extract_asset_tags(t) ==
    LET doc == BeautifulSoup(t)
        tags == {j \in 1..Len(doc) : doc[j].kind = "tag" /\ doc[j].name = TagAsset}
        Whole(j) == {AttrId, AttrName, AttrExtension} \subseteq DOMAIN doc[j].attrs
        Last(id) == CHOOSE j \in tags :
                        /\ doc[j].attrs[AttrId] = id
                        /\ \A k \in tags : doc[k].attrs[AttrId] = id => k <= j
    IN  IF \E j \in tags : ~Whole(j)
        THEN [ok |-> FALSE, map |-> EmptyBucket]
        ELSE [ok |-> TRUE,
              map |-> [id \in {doc[j].attrs[AttrId] : j \in tags} |->
                          [name |-> doc[Last(id)].attrs[AttrName],
                           extension |-> doc[Last(id)].attrs[AttrExtension]]]]

\* lines 761-765: the elements of the reply, each url stripped
_extract_asset_urls(asset_ids) ==
    [i \in 1..Len(env.asset_urls) |->
        [id |-> env.asset_urls[i].id, url |-> Strip(env.asset_urls[i].url)]]

\* lines 840-850: the loop over the resolved assets; an id the text has no
\* tag of raises KeyError
RECURSIVE AssetTagLinks(_, _, _)
AssetTagLinks(asset_urls, asset_tags_map, acc) ==
    IF asset_urls = <<>> \/ ~acc.ok THEN acc
    ELSE LET asset == Head(asset_urls)
         IN  IF asset.id \notin DOMAIN asset_tags_map
             THEN [acc EXCEPT !.ok = FALSE]
             ELSE LET title == clean_filename(asset_tags_map[asset.id].name,
                                              env.unrestricted)
                      extension == clean_filename(
                                       Strip(asset_tags_map[asset.id].extension),
                                       env.unrestricted)
                      url == Strip(asset.url)
                  IN  AssetTagLinks(Tail(asset_urls), asset_tags_map,
                                    [acc EXCEPT !.links =
                                        BucketAppend(@, extension, <<url, title>>)])

\* ''.join(values)
RECURSIVE JoinTexts(_)
JoinTexts(values) ==
    IF values = <<>> THEN <<>> ELSE Head(values) \o JoinTexts(Tail(values))

\* lines 671-673 and 695-710: the text is fetched; the programming operation
\* joins the elements' texts and returns {} for an empty text, the supplement
\* operation takes the elements one at a time
TextFetch ==
    /\ pc = "text_fetch"
    /\ calls' = Append(calls, [kind |-> "text", id |-> <<>>])
    /\ IF env.fail = "text"
       THEN /\ pc' = "raised"
            /\ result' = Raised("network")
            /\ UNCHANGED text
       ELSE IF env.op = "programming"
       THEN /\ text' = JoinTexts(env.values)
            /\ IF text' = <<>>
               THEN pc' = "done" /\ result' = Returned(EmptyBucket)
               ELSE pc' = "a_tags" /\ UNCHANGED result
       ELSE IF ai > Len(env.values)
            THEN /\ pc' = "done"
                 /\ result' = Returned(dest)
                 /\ UNCHANGED text
            ELSE /\ text' = env.values[ai]
                 /\ pc' = "a_tags"
                 /\ UNCHANGED result
    /\ UNCHANGED <<in_assets, in_subtitle_language, resolution, subtitle_language, env,
                   assets, sources, video_content, track, links, asset_links, ai, diag>>
    /\ UNCHANGED <<qvars, soup, run, outs, avars>>

\* line 811
TextATags ==
    /\ pc = "a_tags"
    /\ links' = _extract_links_from_a_tags_in_text(text)
    /\ pc' = "asset_tags"
    /\ UNCHANGED <<in_assets, in_subtitle_language, resolution, subtitle_language, env,
                   assets, sources, video_content, track, asset_links, ai, calls, diag>>
    /\ UNCHANGED <<result, qvars, mvars, avars>>

\* lines 827-852: no lookup when the text has no asset tag
TextAssetTags ==
    /\ pc = "asset_tags"
    /\ LET tags == _extract_asset_tags(text)
           ids == DOMAIN tags.map
           built == AssetTagLinks(_extract_asset_urls(ids), tags.map,
                                  [ok |-> TRUE, links |-> EmptyBucket])
       IN  IF ~tags.ok
           THEN /\ pc' = "raised"
                /\ result' = Raised("KeyError")
                /\ UNCHANGED <<asset_links, calls>>
           ELSE IF ids = {}
           THEN /\ asset_links' = EmptyBucket
                /\ pc' = "text_merge"
                /\ UNCHANGED <<result, calls>>
           ELSE /\ calls' = Append(calls, [kind |-> "asset_urls", id |-> ids])
                /\ IF env.fail = "asset_urls"
                   THEN /\ pc' = "raised"
                        /\ result' = Raised("network")
                        /\ UNCHANGED asset_links
                   ELSE IF ~built.ok
                   THEN /\ pc' = "raised"
                        /\ result' = Raised("KeyError")
                        /\ UNCHANGED asset_links
                   ELSE /\ asset_links' = built.links
                        /\ pc' = "text_merge"
                        /\ UNCHANGED result
    /\ UNCHANGED <<in_assets, in_subtitle_language, resolution, subtitle_language, env,
                   assets, sources, video_content, track, links, ai, diag>>
    /\ UNCHANGED <<qvars, mvars, avars>>

\* the two lists of a key joined with no look at the URLs already there
MergeTextLinksExtend(a_links, asset_tag_links) ==
    [k \in DOMAIN a_links \cup DOMAIN asset_tag_links |->
        (IF k \in DOMAIN a_links THEN a_links[k] ELSE <<>>)
        \o (IF k \in DOMAIN asset_tag_links THEN asset_tag_links[k] ELSE <<>>)]

\* lines 812-814
MergeTextLinks(a_links, asset_tag_links) ==
    extend_supplement_links(a_links, asset_tag_links)

TextMerge ==
    /\ pc = "text_merge"
    /\ links' = MergeTextLinks(links, asset_links)
    /\ pc' = "text_links"
    /\ UNCHANGED <<in_assets, in_subtitle_language, resolution, subtitle_language, env,
                   assets, sources, video_content, track, asset_links, ai, calls, diag>>
    /\ UNCHANGED <<result, qvars, mvars, avars>>

\* lines 676-679 and 711-715: the supplement operation merges the links of the
\* text into supplement_content; then both operations call
\* prettifier.prettify, which MarkupToHTMLConverter (lines 126-207) does not
\* define, so the call raises AttributeError
TextDocument ==
    /\ pc = "text_links"
    /\ dest' = IF env.op = "supplement" THEN extend_supplement_links(dest, links)
               ELSE dest
    /\ pc' = "raised"
    /\ result' = Raised("AttributeError")
    /\ UNCHANGED <<lvars, qvars, mvars, srcs, merged, order>>

NextText == TextFetch \/ TextATags \/ TextAssetTags \/ TextMerge \/ TextDocument

HrefA == <<"h", ":", "/", "/", "x", "/", "a", ".", "p", "d", "f">>
HrefB == <<"h", ":", "/", "/", "x", "/", "b", ".", "P", "D", "F", "?", "q", "=", "1">>
HrefNoExt == <<"h", ":", "/", "/", "x", "/">>

TagId1 == <<"t", "1">>
TagId2 == <<"t", "2">>
TagId3 == <<"t", "3">>

Anchor(href) == Tag(TagA, Attr(AttrHref, href))
AssetTag(id, name, extension) ==
    Tag(TagAsset,
        [a \in {AttrId, AttrName, AttrExtension} |->
            IF a = AttrId THEN id ELSE IF a = AttrName THEN name ELSE extension])

TextNodes ==
    { Anchor(HrefA),
      Anchor(<<" ">> \o HrefA),
      Anchor(HrefB),
      Anchor(HrefNoExt),
      Tag(TagA, NoAttrs),
      AssetTag(TagId1, <<"a">>, PDF),
      AssetTag(TagId2, <<"b">>, PDF),
      AssetTag(TagId1, <<"c">>, <<" ", "P", "D", "F">>),
      Tag(TagAsset, Attr(AttrId, TagId2)) }

AssetUrl(id, url) == [id |-> id, url |-> url]

\* elements of the reply of OPENCOURSE_ASSET_URL: two ids may have one URL,
\* and the reply may name an id that was not asked for
AssetUrlElements ==
    { AssetUrl(TagId1, HrefA),
      AssetUrl(TagId2, <<" ">> \o HrefA \o <<" ">>),
      AssetUrl(TagId2, U1),
      AssetUrl(TagId3, U1) }

FixedAssetUrls == << AssetUrl(TagId1, HrefA), AssetUrl(TagId2, <<" ">> \o HrefA \o <<" ">>) >>

FixedText ==
    << Anchor(HrefA), AssetTag(TagId1, <<"a">>, PDF), AssetTag(TagId2, <<"b">>, PDF) >>

\* the ids of the asset tags of a text
AskedIds(t) ==
    {t[j].attrs[AttrId] : j \in {i \in 1..Len(t) : /\ t[i].kind = "tag"
                                                   /\ t[i].name = TagAsset
                                                   /\ AttrId \in DOMAIN t[i].attrs}}

TextEnv(op, values, asset_urls, fail, unrestricted) ==
    [Env(FixedVideo, SmallFirst, fail, unrestricted) EXCEPT
        !.op = op, !.values = values, !.asset_urls = asset_urls]

\* the text varies; the endpoint answers for the ids it is asked
InitTextTags ==
    \E op \in {"programming", "supplement"}, t \in SeqUpTo(TextNodes, MaxTags) :
        env = TextEnv(op, <<t>>,
                      SelectSeq(FixedAssetUrls, LAMBDA e : e.id \in AskedIds(t)),
                      "none", FALSE)

\* the reply of the endpoint varies
InitTextReplies ==
    \E op \in {"programming", "supplement"}, u \in BOOLEAN,
       reply \in SeqUpTo(AssetUrlElements, MaxElements) :
        env = TextEnv(op, <<FixedText>>, reply, "none", u)

\* the number of elements varies, or a request fails
InitTextValues ==
    \E op \in {"programming", "supplement"},
       values \in {<<>>, <<FixedText>>, <<FixedText, <<Anchor(HrefB)>>>>},
       fail \in {"none", "text", "asset_urls"} :
        env = TextEnv(op, values, FixedAssetUrls, fail, FALSE)

\* a text of anchors: two hrefs of one extension out of order, one of them
\* twice, and a bare site
AnchorText ==
    << Anchor(HrefB), Anchor(<<" ">> \o HrefA), Anchor(HrefNoExt), Anchor(HrefA) >>

InitTextAnchors ==
    \E op \in {"programming", "supplement"}, u \in BOOLEAN :
        env = TextEnv(op, <<AnchorText>>, <<>>, "none", u)

InitText ==
    /\ InitTextTags \/ InitTextReplies \/ InitTextValues \/ InitTextAnchors
    /\ pc = "text_fetch"
    /\ result = NoResult
    /\ in_assets = <<>>
    /\ in_subtitle_language = EN
    /\ resolution = R540
    /\ subtitle_language = EN
    /\ assets = <<>>
    /\ sources = <<>>
    /\ video_content = EmptyBucket
    /\ track = 1
    /\ links = EmptyBucket
    /\ asset_links = EmptyBucket
    /\ ai = 1
    /\ calls = <<>>
    /\ diag = <<>>
    /\ InitQuizIdle
    /\ InitMarkupIdle
    /\ InitAggregateIdle

SpecText == InitText /\ [][NextText]_vars

----------------------------------------------------------------------------
(* In-memory documents: extract_links_from_exam, extract_links_from_quiz *)

\* define.IN_MEMORY_EXTENSION and define.IN_MEMORY_MARKER: the reserved
\* extension of in-memory documents and the marker their url slot starts with
IN_MEMORY_EXTENSION == <<"h", "t", "m", "l">>
IN_MEMORY_MARKER == <<"#", "i", "n", "m", "e", "m", "o", "r", "y", "#">>

RoleExam == <<"e", "x", "a", "m">>
RoleQuiz == <<"q", "u", "i", "z">>
RoleInstructions == <<"i", "n", "s", "t", "r", "u", "c", "t", "i", "o", "n", "s">>

TagH3 == <<"h", "3">>
TagForm == <<"f", "o", "r", "m">>
TagLabel == <<"l", "a", "b", "e", "l">>
TagInput == <<"i", "n", "p", "u", "t">>
TagBr == <<"b", "r">>
TagHr == <<"h", "r">>
AttrType == <<"t", "y", "p", "e">>

\* <input type="..." name="...">
Input(type, name) ==
    Tag(TagInput, [a \in {AttrType, AttrName} |-> IF a = AttrType THEN type ELSE name])

\* the type attribute of a line's <input> as text
InputTypeText(input) ==
    CASE input = "radio" -> <<"r", "a", "d", "i", "o">>
      [] input = "checkbox" -> <<"c", "h", "e", "c", "k", "b", "o", "x">>
      [] input = "text" -> TagText
      [] OTHER -> <<>>

\* lines 68, 71-72, 103-109, 121-123: the text of one line of the markup, as
\* the nodes a parser reads from it
LineNodes(line) ==
    CASE line.tag = "h3" ->
            << Tag(TagH3, NoAttrs),
               Str(<<"Q", "u", "e", "s", "t", "i", "o", "n", " ", DigitChar[line.number]>>) >>
      [] line.tag = "prompt" ->
            [i \in 1..Len(line.content) |-> Tag(line.content[i], NoAttrs)]
      [] line.tag = "field" ->
            << Tag(TagForm, NoAttrs), Tag(TagLabel, NoAttrs),
               Str(<<"E", "n", "t", "e", "r">>), Input(TagText, <<>>),
               Tag(TagBr, NoAttrs) >>
      [] line.tag = "form" -> << Tag(TagForm, NoAttrs) >>
      [] line.tag = "option" ->
            << Tag(TagLabel, NoAttrs),
               Input(InputTypeText(line.input), <<DigitChar[line.number + 1]>>) >>
            \o [i \in 1..Len(line.content) |-> Tag(line.content[i], NoAttrs)]
            \o << Tag(TagBr, NoAttrs) >>
      [] line.tag = "hr" -> << Tag(TagHr, NoAttrs) >>
      [] OTHER -> <<>>

\* line 93: '\n'.join(result)
RECURSIVE JoinLines(_)
JoinLines(lines) ==
    IF lines = <<>> THEN <<>> ELSE LineNodes(Head(lines)) \o JoinLines(Tail(lines))

\* lines 330-335 and 339-344: the session id and the JSON are fetched and the
\* JSON is written to a file. The file name of a quiz is built from
\* self._class_name, which no line of the class assigns: AttributeError.
ExamFetch ==
    /\ pc = "exam_fetch"
    /\ IF env.fail = "session"
       THEN /\ calls' = Append(calls, [kind |-> "session", id |-> <<>>])
            /\ pc' = "raised"
            /\ result' = Raised("network")
            /\ UNCHANGED quiz
       ELSE /\ calls' = calls \o << [kind |-> "session", id |-> <<>>],
                                    [kind |-> "quiz_json", id |-> <<>>] >>
            /\ IF env.fail = "quiz_json"
               THEN pc' = "raised" /\ result' = Raised("network") /\ UNCHANGED quiz
               ELSE IF env.op = "quiz"
               THEN pc' = "raised" /\ result' = Raised("AttributeError") /\ UNCHANGED quiz
               ELSE pc' = "quiz" /\ quiz' = env.quiz_json /\ UNCHANGED result
    /\ UNCHANGED <<in_assets, in_subtitle_language, resolution, subtitle_language, env,
                   assets, sources, video_content, track, links, asset_links, ai, diag>>
    /\ UNCHANGED <<qi, qresult, mvars, avars>>

\* lines 349-350: the markup of the quiz is handed to the HTML converter
QuizMarkup ==
    /\ pc = "quiz_done"
    /\ env.op = "exam"
    /\ text' = JoinLines(qresult)
    /\ pc' = "markup"
    /\ UNCHANGED <<result, lvars, qvars, soup, run, outs, avars>>

\* the url slot of an in-memory document: the marker, then the HTML
InMemoryUrl(html) == <<Str(IN_MEMORY_MARKER)>> \o html

\* lines 352-356
DocumentLinks ==
    /\ pc = "converted"
    /\ env.op = "exam"
    /\ links' = extend_supplement_links(
                    EmptyBucket,
                    [k \in {IN_MEMORY_EXTENSION} |->
                        << <<InMemoryUrl(outs[run]), RoleExam>> >>])
    /\ result' = Returned(links')
    /\ pc' = "done"
    /\ UNCHANGED <<in_assets, in_subtitle_language, resolution, subtitle_language, env,
                   assets, sources, video_content, track, asset_links, ai, calls, diag>>
    /\ UNCHANGED <<qvars, mvars, avars>>

NextExam ==
    \/ ExamFetch
    \/ ConvertQuestion
    \/ QuizReturn
    \/ QuizMarkup
    \/ MarkupParse
    \/ InjectCss
    \/ ConvertText
    \/ ConvertHeading
    \/ ConvertCode
    \/ ConvertList
    \/ ConvertImages
    \/ MarkupReturn
    \/ DocumentLinks

InitExam ==
    /\ pc = "exam_fetch"
    /\ result = NoResult
    /\ \E op \in {"exam", "quiz"}, fail \in {"none", "session", "quiz_json"},
          q \in SeqUpTo(Questions, MaxQuestions) :
        env = [Env(FixedVideo, SmallFirst, fail, FALSE) EXCEPT
                  !.op = op, !.quiz_json = q]
    /\ InitLectureLocalsIdle
    /\ InitQuizIdle
    /\ InitMarkupIdle
    /\ InitAggregateIdle

\* the operations that return an in-memory document
InitDocument == InitExam \/ InitText
NextDocument == NextExam \/ NextText
SpecDocument == InitDocument /\ [][NextDocument]_vars

----------------------------------------------------------------------------
(* The operations that build link buckets, together *)

InitLinks == InitLecture \/ InitAggregate \/ InitText
NextLinks == NextLecture \/ NextAggregate \/ NextText
SpecLinks == InitLinks /\ [][NextLinks]_vars

----------------------------------------------------------------------------
(* Claims *)

\* every entry of bucket a is in bucket b under the same key, title included
Kept(a, b) ==
    \A k \in DOMAIN a :
        /\ k \in DOMAIN b
        /\ \A i \in 1..Len(a[k]) : \E j \in 1..Len(b[k]) : b[k][j] = a[k][i]

\* no URL twice under one key
NoDuplicateUrls(b) ==
    \A k \in DOMAIN b :
        \A i, j \in 1..Len(b[k]) : b[k][i][1] = b[k][j][1] => i = j

\* C1: Merge is monotonic. No step of the lecture operation and no merge of
\* a sequence of merges into one destination removes or changes an entry:
\* every (url, title) entry a destination holds under a key before the step
\* is under that key after it.
C1MergeMonotonic == [][Kept(links, links') /\ Kept(dest, dest')]_vars

\* a lecture whose assets bring the video's own URL under 'mp4' has returned
C1Witness ==
    /\ pc = "done"
    /\ MP4 \in DOMAIN asset_links
    /\ MP4 \in DOMAIN links
    /\ HasUrl(asset_links[MP4], links[MP4][1][1])

\* C2: no bucket a public extraction operation returns holds a URL twice
\* under one extension key, also when two lecture assets or two asset tags
\* resolve to one URL and extension. The same holds of the bucket the
\* programming and supplement operations have built from a text when they
\* reach the document step, and of supplement_content.
C2NoDuplicateUrls ==
    /\ result.status = "returned" => NoDuplicateUrls(result.value)
    /\ pc = "text_links" => NoDuplicateUrls(links)
    /\ NoDuplicateUrls(dest)

\* a lecture has returned whose asset bucket held one URL twice under a key
C2Witness ==
    /\ pc = "done"
    /\ result.status = "returned"
    /\ ~NoDuplicateUrls(asset_links)

FirstCalls == SelectSeq(calls, LAMBDA c : c.kind = "first")

\* C4: the k-th first-level lookup is sent the k-th asset id without its last
\* two characters when the id has 24 characters, and the id itself otherwise;
\* normalization keeps the number of ids, and no first-level lookup is issued
\* before it.
C4AssetIdNormalization ==
    /\ pc \in {"assets", "done"} => Len(assets) = Len(in_assets)
    /\ pc \in {"video_fetch", "video_select", "subtitles", "normalize"} => FirstCalls = <<>>
    /\ Len(FirstCalls) <= Len(in_assets)
    /\ \A k \in 1..Len(FirstCalls) :
          FirstCalls[k].id = IF Len(in_assets[k]) = 24
                             THEN SubSeq(in_assets[k], 1, 22)
                             ELSE in_assets[k]

\* the lookups of an id of 24 characters and of one of 25 have been issued
C4Witness ==
    /\ pc = "done"
    /\ \E j, k \in 1..Len(FirstCalls) :
          /\ Len(in_assets[j]) = 24 /\ Len(FirstCalls[j].id) = 22
          /\ Len(in_assets[k]) = 25 /\ Len(FirstCalls[k].id) = 25

VideoSources == {env.video.sources[i] : i \in DOMAIN env.video.sources}
Mp4Urls(S) ==
    {s.formatSources["video/mp4"] : s \in {t \in S : "video/mp4" \in DOMAIN t.formatSources}}

\* C5: the URL stored under 'mp4' is the video/mp4 URL of a source of the
\* requested resolution when there is one; otherwise a diagnostic is emitted
\* and it is the URL of a source of the highest resolution; its title is ''.
C5VideoSelection ==
    (pc \in {"subtitles", "normalize"} /\ MP4 \in DOMAIN video_content) =>
        LET match == {s \in VideoSources : s.resolution = resolution}
            top == {s \in VideoSources :
                      \A t \in VideoSources : Pixels(t.resolution) <= Pixels(s.resolution)}
        IN  /\ IF match # {}
               THEN video_content[MP4] \in Mp4Urls(match)
               ELSE /\ \E i \in 1..Len(diag) : diag[i].what = "resolution"
                    /\ video_content[MP4] \in Mp4Urls(top)
            /\ pc = "normalize" => links[MP4] = << <<video_content[MP4], <<>> >> >>

\* the keys of video_content that end in '.' + extension
TrackKeys(extension) ==
    {k \in DOMAIN video_content :
        /\ Len(k) > Len(extension)
        /\ SubSeq(k, Len(k) - Len(extension), Len(k)) = <<".">> \o extension}

\* C6: for a requested language other than 'all', each track decides on its
\* own map: the requested language when the map has it, else 'en' when the
\* request is not 'en'; and it emits one entry for that language when the map
\* has it and none otherwise.
C6TracksIndependent ==
    (pc = "normalize" /\ in_subtitle_language # ALL) =>
        \A t \in 1..Len(subtitle_nodes) :
            LET node == subtitle_nodes[t]
                subtitles == env.video[node.node]
                language == IF in_subtitle_language \in DOMAIN subtitles.map
                            THEN in_subtitle_language ELSE EN
            IN  TrackKeys(node.extension) =
                    IF subtitles.present /\ language \in DOMAIN subtitles.map
                    THEN {language \o <<".">> \o node.extension}
                    ELSE {}

IsSuffix(a, b) == Len(a) <= Len(b) /\ SubSeq(b, Len(b) - Len(a) + 1, Len(b)) = a

\* C7: for the requested language 'all', each present track emits one entry
\* per language of its map and no other, under '<language>.<extension>'; each
\* value is a one-element list of the absolute form of the map's URL with
\* title ''.
C7AllLanguages ==
    (pc = "normalize" /\ in_subtitle_language = ALL) =>
        \A t \in 1..Len(subtitle_nodes) :
            LET node == subtitle_nodes[t]
                subtitles == env.video[node.node]
            IN  /\ TrackKeys(node.extension) =
                       {l \o <<".">> \o node.extension : l \in DOMAIN subtitles.map}
                /\ \A l \in DOMAIN subtitles.map :
                       LET entries == links[l \o <<".">> \o node.extension]
                       IN  /\ Len(entries) = 1
                           /\ entries[1][2] = <<>>
                           /\ IsSuffix(subtitles.map[l], entries[1][1])
                           /\ \E i \in 1..Len(entries[1][1]) : entries[1][1][i] = ":"

\* 'all' was requested and both tracks offered two languages
C7Witness ==
    /\ pc = "normalize"
    /\ in_subtitle_language = ALL
    /\ Cardinality(DOMAIN env.video.subtitles.map) = 2
    /\ Cardinality(DOMAIN env.video.subtitlesTxt.map) = 2
    /\ Cardinality(DOMAIN links) = 5

\* the source buckets merged into an empty bucket in the order of their indices
RECURSIVE MergeInOrder(_)
MergeInOrder(bs) ==
    IF bs = <<>> THEN EmptyBucket
    ELSE extend_supplement_links(MergeInOrder(SubSeq(bs, 1, Len(bs) - 1)), bs[Len(bs)])

\* the set of URLs under each key
UrlSets(b) == [k \in DOMAIN b |-> {b[k][i][1] : i \in 1..Len(b[k])}]

\* C3: whatever the order the source buckets were merged in, the final bucket
\* has the keys and, under each key, the set of URLs of the merge in index
\* order, and every (extension, url) pair of every source bucket is in it.
C3MergeOrderIndependent ==
    pc = "done" =>
        /\ UrlSets(result.value) = UrlSets(MergeInOrder(srcs))
        /\ \A i \in DOMAIN srcs : Pairs(srcs[i]) \subseteq Pairs(result.value)

\* three buckets, two of them sharing a URL under a key, merged last to first
C3Witness ==
    /\ pc = "done"
    /\ order = <<3, 2, 1>>
    /\ Pairs(srcs[1]) \cap Pairs(srcs[3]) # {}
    /\ srcs[1] # srcs[3]

Headers == SelectSeq(qresult, LAMBDA l : l.tag = "h3")

\* the index in qresult of the header of question k
HeaderAt(k) ==
    CHOOSE p \in 1..Len(qresult) :
        /\ qresult[p].tag = "h3"
        /\ Cardinality({q \in 1..p : qresult[q].tag = "h3"}) = k

\* C8: for a quiz of N questions of known and unknown types the conversion
\* completes, and its output holds exactly N 'Question k' headers, numbered
\* 1..N in order, the k-th one followed by the prompt of the k-th question.
C8QuestionHeaders ==
    pc = "quiz_done" =>
        /\ Len(Headers) = Len(quiz)
        /\ \A k \in 1..Len(Headers) :
              /\ Headers[k].number = k
              /\ HeaderAt(k) < Len(qresult)
              /\ qresult[HeaderAt(k) + 1].tag = "prompt"
              /\ qresult[HeaderAt(k) + 1].content = quiz[k].prompt

\* a quiz of an unknown type followed by a known one has been converted
C8Witness ==
    /\ pc = "quiz_done"
    /\ Len(quiz) = 2
    /\ quiz[1].type \notin KNOWN_QUESTION_TYPES
    /\ quiz[2].type \in KNOWN_QUESTION_TYPES
    /\ quiz[1].prompt # quiz[2].prompt
    /\ Len(Headers) = 2

\* the lines of question k: from its header to the next header
QuestionSegment(k) ==
    SubSeq(qresult, HeaderAt(k),
           IF k < Len(Headers) THEN HeaderAt(k + 1) - 1 ELSE Len(qresult))

\* C9: a question of an unknown type gets no <input> element at all, options
\* or not, and every option's <input> is a checkbox or a radio button.
C9InputsOnlyForKnownTypes ==
    pc = "quiz_done" =>
        /\ \A k \in 1..Len(quiz) :
              quiz[k].type \notin KNOWN_QUESTION_TYPES =>
                  \A i \in 1..Len(QuestionSegment(k)) :
                      QuestionSegment(k)[i].input = "none"
        /\ \A i \in 1..Len(qresult) :
              qresult[i].tag = "option" => qresult[i].input \in {"checkbox", "radio"}

\* C10: the conversion is idempotent: on a document with no image to inline,
\* the conversion of its own output returns that output again (nothing is
\* renamed and nothing is added, the CSS block included).
C10Idempotent ==
    (Len(outs) >= 2 /\ Images(BeautifulSoup(outs[1])) = <<>>) => outs[2] = outs[1]

\* the image of a document at index i is inlined: the lookup's reply names
\* its id, the fetch of its URL answered, and the status was 200
Fetched(id) ==
    /\ id \in DOMAIN env.image_assets
    /\ Strip(env.image_assets[id]) \in DOMAIN env.fetch
    /\ env.fetch[Strip(env.image_assets[id])].status = 200

\* what the k-th image with an asset id of the text is in the returned document
ImageAsClaimed(node) ==
    LET id == node.attrs[AttrAssetId]
    IN  IF Fetched(id)
        THEN [node EXCEPT !.attrs = DictSet(@, AttrSrc,
                              DataUri(env.fetch[Strip(env.image_assets[id])]))]
        ELSE node

\* C11: image-inlining failures degrade gracefully. When the batch lookup
\* of the images' asset ids answers, the conversion does not raise, and the
\* document it returns holds every image with an asset id in order: with a
\* base64 data URI as its source when its id was in the reply and its fetch
\* returned 200, and as it was otherwise (id missing from the reply, fetch
\* failed, or a status other than 200).
C11ImageFailuresGraceful ==
    (env.fail = "none" /\ Images(BeautifulSoup(text)) # <<>>) =>
        /\ pc # "raised"
        /\ (pc = "converted" /\ run = 1) =>
              LET before == BeautifulSoup(text)
                  was == Images(before)
                  now == Images(outs[1])
              IN  /\ Len(now) = Len(was)
                  /\ \A k \in 1..Len(was) :
                        outs[1][now[k]] = ImageAsClaimed(before[was[k]])

\* the hrefs of the anchors of a text, each without surrounding blanks
Hrefs(t) ==
    {Strip(t[j].attrs[a]) :
        <<j, a>> \in {<<i, x>> \in (1..Len(t)) \X {AttrHref, <<"H", "R", "E", "F">>} :
                        /\ t[i].kind = "tag"
                        /\ Lower(t[i].name) = TagA
                        /\ x \in DOMAIN t[i].attrs}}

\* the extension of the final path segment of an href, query and fragment aside
HrefExtension(h) == SplitExt(clean_url(h))[2]
HrefKey(h) == clean_filename(Strip(StripDot(Lower(HrefExtension(h)))), env.unrestricted)
HrefTitle(h) == clean_filename(Basename(SplitExt(clean_url(h))[1]), env.unrestricted)

\* C12: the anchor pass. Every distinct href (the attribute's value without
\* surrounding blanks) whose final path segment has an extension has exactly
\* one entry, (the href, its sanitized basename), under the key that is its
\* extension in lower case, sanitized, and under no other key; an href with
\* no extension has no entry; the bucket holds nothing else, so no key is
\* empty; and within a key the URLs ascend.
C12AnchorPass ==
    pc = "asset_tags" =>
        /\ \A h \in Hrefs(text) :
              IF HrefExtension(h) # <<>>
              THEN /\ HrefKey(h) \in DOMAIN links
                   /\ Cardinality({i \in 1..Len(links[HrefKey(h)]) :
                                      links[HrefKey(h)][i][1] = h}) = 1
                   /\ \A k \in DOMAIN links : \A i \in 1..Len(links[k]) :
                         links[k][i][1] = h =>
                            k = HrefKey(h) /\ links[k][i][2] = HrefTitle(h)
              ELSE \A k \in DOMAIN links : ~HasUrl(links[k], h)
        /\ \A k \in DOMAIN links :
              /\ links[k] # <<>>
              /\ \A i \in 1..Len(links[k]) : links[k][i][1] \in Hrefs(text)
              /\ \A i, j \in 1..Len(links[k]) :
                    i < j => StrLess(links[k][i][1], links[k][j][1])

\* the anchor pass has read a text that names an href twice, a bare site, and
\* two hrefs of one extension in descending order, and listed the two
C12Witness ==
    /\ pc = "asset_tags"
    /\ text = AnchorText
    /\ DOMAIN links = {PDF}
    /\ links[PDF] = << <<HrefA, <<"a">>>>, <<HrefB, <<"b">>>> >>

LowerLetters == {c \in Letters : LowerChar(c) = c}

\* lower-case letters and digits only
PlainKey(k) == \A i \in 1..Len(k) : k[i] \in LowerLetters \cup Digits

\* 'language.extension', each part plain
TrackKey(k) ==
    \E d \in 1..Len(k) :
        /\ k[d] = "."
        /\ PlainKey(SubSeq(k, 1, d - 1))
        /\ PlainKey(SubSeq(k, d + 1, Len(k)))

\* C13: every extension key of every bucket is lower case and free of
\* punctuation, whichever pass produced it: the keys of the video and
\* subtitle resolver are plain or of the form 'language.extension', the
\* keys of the anchor pass, of the asset-tag pass (a declared extension
\* 'PDF' included) and of the lecture-asset pass are plain.
C13ExtensionKeys ==
    /\ \A k \in DOMAIN video_content : PlainKey(k) \/ TrackKey(k)
    /\ \A k \in DOMAIN asset_links : PlainKey(k)
    /\ \A k \in (DOMAIN links \cup DOMAIN dest) \ DOMAIN video_content : PlainKey(k)

\* a bucket that holds one in-memory document of a role and nothing else
\* under the reserved extension
OneDocument(b, role) ==
    /\ IN_MEMORY_EXTENSION \in DOMAIN b
    /\ Len(b[IN_MEMORY_EXTENSION]) = 1
    /\ b[IN_MEMORY_EXTENSION][1][2] = role
    /\ Head(b[IN_MEMORY_EXTENSION][1][1]) = Str(IN_MEMORY_MARKER)

\* C14: an extraction that builds a synthetic document raises only when a
\* lookup fails or a reply lacks a field, and otherwise returns a bucket that
\* holds under the reserved in-memory extension exactly one entry, whose url
\* slot starts with the in-memory marker and whose role is 'quiz' for
\* extract_links_from_quiz, 'exam' for extract_links_from_exam and
\* 'instructions' for extract_links_from_programming on a text that is not
\* empty.
C14InMemoryDocument ==
    /\ (env.op \in {"quiz", "exam", "programming"} /\ pc = "raised") =>
            result.exc \in {"network", "KeyError"}
    /\ (env.op = "quiz" /\ pc = "done") => OneDocument(result.value, RoleQuiz)
    /\ (env.op = "exam" /\ pc = "done") => OneDocument(result.value, RoleExam)
    /\ (env.op = "programming" /\ pc = "done" /\ text # <<>>) =>
            OneDocument(result.value, RoleInstructions)

\* a lookup that was issued has failed: the request of its kind fails, or
\* the endpoint has no answer for its id
FailedLookup(call) ==
    \/ call.kind = env.fail
    \/ call.kind = "first" /\ call.id \notin DOMAIN env.first
    \/ call.kind = "second" /\ call.id \notin DOMAIN env.second

\* C15: a network failure is fatal to the operation in progress and never
\* swallowed. Once a lookup issued by extract_links_from_lecture,
\* extract_links_from_supplement or extract_links_from_programming has
\* failed, the operation has ended with the failure propagated, has returned
\* no bucket, and has issued no lookup after the failed one.
C15NetworkFailurePropagates ==
    \A i \in 1..Len(calls) :
        FailedLookup(calls[i]) =>
            /\ pc = "raised"
            /\ result = Raised("network")
            /\ i = Len(calls)

\* the second-level lookup of a lecture asset has failed after the video
\* lookup and the first-level lookup answered
C15Witness ==
    /\ pc = "raised"
    /\ Len(calls) = 3
    /\ calls[1].kind = "video"
    /\ calls[3].kind = "second"
    /\ FailedLookup(calls[3])

\* the lookups of a kind issued so far
CallsOf(kind) == SelectSeq(calls, LAMBDA c : c.kind = kind)

\* C16: resolution is batched. A lecture with one or more asset ids, no id
\* given twice, has issued exactly one first-level lookup when it returns,
\* however many ids it has; the asset-tag pass of a text has issued exactly one asset-URL
\* lookup for all the ids of its tags, and none when the text has no asset
\* tag.
C16BatchedResolution ==
    /\ (/\ pc = "done"
        /\ Len(assets) >= 1
        /\ \A i, j \in 1..Len(assets) : assets[i] = assets[j] => i = j) =>
            Len(CallsOf("first")) = 1
    /\ pc = "text_merge" =>
          Len(CallsOf("asset_urls")) = (IF AskedIds(text) = {} THEN 0 ELSE 1)

\* the tags of a document, in order
TagsOf(document) == SelectSeq(document, LAMBDA n : n.kind = "tag")

\* the name the claim gives a node of the markup after conversion
NameAsClaimed(node) ==
    CASE node.name = TagText -> TagP
      [] node.name = TagCode -> TagPre
      [] node.name = TagHeading ->
            <<"h">> \o (IF AttrLevel \in DOMAIN node.attrs
                        THEN node.attrs[AttrLevel] ELSE <<"1">>)
      [] node.name = TagList ->
            IF AttrBulletType \in DOMAIN node.attrs /\ node.attrs[AttrBulletType] = Numbers
            THEN TagOl ELSE TagUl
      [] OTHER -> node.name

\* C17: in the document a conversion returns, every list marker is an
\* ordered list if and only if its bullet kind is 'numbers' and an unordered
\* list otherwise, a list marker with no bullet kind included; every
\* heading marker is the heading of its level, of level 1 when it has none;
\* and no paragraph, heading, code or list marker remains.
C17MarkersRenamed ==
    (pc = "converted" /\ run = 1) =>
        LET before == TagsOf(BeautifulSoup(text))
            after == TagsOf(outs[1])
        IN  /\ Len(after) >= Len(before)
            /\ \A k \in 1..Len(before) : after[k].name = NameAsClaimed(before[k])
            /\ \A k \in 1..Len(after) :
                  after[k].name \notin {TagText, TagHeading, TagCode, TagList}

\* the records the claim gives a first-level reply: in the order of the
\* reply, one per 'url' element and those of the second-level reply of every
\* 'asset' element
RECURSIVE RecordsAsClaimed(_)
RecordsAsClaimed(elements) ==
    IF elements = <<>> THEN <<>>
    ELSE (CASE Head(elements).typeName = "url" ->
                  << [name |-> Strip(Head(elements).name),
                      url |-> Strip(Head(elements).url)] >>
            [] Head(elements).typeName = "asset" ->
                  [i \in 1..Len(env.second[Head(elements).assetId]) |->
                      [name |-> Strip(env.second[Head(elements).assetId][i].name),
                       url |-> Strip(env.second[Head(elements).assetId][i].url)]]
            [] OTHER -> <<>>)
         \o RecordsAsClaimed(Tail(elements))

\* the elements of a reply that are of neither type
UnknownElements(elements) ==
    SelectSeq(elements, LAMBDA e : e.typeName \notin {"url", "asset"})

\* the records of the replies of the first k asset ids, in order
RECURSIVE RecordsUpTo(_)
RecordsUpTo(k) ==
    IF k = 0 THEN <<>>
    ELSE RecordsUpTo(k - 1) \o RecordsAsClaimed(env.first[assets[k]])

RECURSIVE UnknownUpTo(_)
UnknownUpTo(k) ==
    IF k = 0 THEN 0
    ELSE UnknownUpTo(k - 1) + Len(UnknownElements(env.first[assets[k]]))

\* every lookup answers
AllAnswer ==
    /\ env.fail = "none"
    /\ \A k \in 1..Len(assets) : assets[k] \in DOMAIN env.first

\* C18: an element of an unrecognized type in a first-level reply is not
\* fatal. When every lookup answers, the lecture operation does not raise
\* once it resolves its assets; the first-level resolution of each asset id gives, in reply order, one
\* record for every 'url' element and the records of the second-level reply
\* of every 'asset' element, and nothing for an element of another type but
\* one diagnostic; and the asset bucket is built from exactly these records.
C18UnknownElementNonFatal ==
    /\ (AllAnswer /\ CallsOf("first") # <<>>) => pc # "raised"
    /\ (AllAnswer /\ pc \in {"assets", "done"}) =>
        /\ \A k \in 1..(ai - 1) :
              LET got == _get_asset_urls(assets[k])
              IN  /\ got.ok
                  /\ got.urls = RecordsAsClaimed(env.first[assets[k]])
                  /\ Len(got.diag) = Len(UnknownElements(env.first[assets[k]]))
        /\ asset_links = AddAssets(RecordsUpTo(ai - 1), EmptyBucket)
        /\ Len(SelectSeq(diag, LAMBDA d : d.what = "typeName")) = UnknownUpTo(ai - 1)

\* a lecture has returned whose first asset id was answered with an element
\* of an unknown type and then a 'url' element, which is in the bucket
C18Witness ==
    /\ pc = "done"
    /\ result.status = "returned"
    /\ Len(assets) >= 1
    /\ assets[1] \in DOMAIN env.first
    /\ Len(env.first[assets[1]]) = 2
    /\ env.first[assets[1]][1].typeName = "other"
    /\ env.first[assets[1]][2].typeName = "url"
    /\ asset_links # EmptyBucket
    /\ \E i \in 1..Len(diag) : diag[i].what = "typeName"

====
